---------------------------- MODULE Spec2Model ----------------------------
(***************************************************************************)
(* Heart Beat Monitor API (src/app.py): a FastAPI process with             *)
(*   - foreground handlers over table heart_beat (the heartbeat ledger),   *)
(*   - a background coroutine monitor_heartbeat_task (the reconciler)      *)
(*     that derives device_map.status from heart_beat.beat_time,           *)
(*   - monitor control handlers (enable / disable / restart / status),     *)
(*   - the lifespan that starts the reconciler and cancels it on shutdown. *)
(*                                                                         *)
(* Everything runs on one asyncio event loop: a coroutine runs until its   *)
(* next await, so one action of the model is the code between two awaits   *)
(* that really suspend (connect, execute, commit, sleep, await task).      *)
(* The store is PostgreSQL through psycopg 3 with autocommit off: writes   *)
(* made inside "async with conn.transaction()" become visible at the       *)
(* COMMIT sent when the block exits; writes made outside such a block sit  *)
(* in an implicit transaction that conn.close() discards.                  *)
(***************************************************************************)
EXTENDS Integers, Sequences, FiniteSets, TLC

(* ------------------------------ bounds -------------------------------- *)
\* minutes of wall-clock time that may pass after the first instant
MaxElapsed == 1
\* number of reconciler tasks asyncio.create_task may create in one run
MaxTasks == 4
\* number of restart_monitor requests that may be in flight together
MaxRestartCalls == 2
\* number of POST /heartbeat requests followed await by await
MaxUpsertCalls == 2

(* ------------------------- program constants -------------------------- *)
\* timedelta(minutes=5)
TimeoutMinutes == 5
\* HTTP status codes of the responses
HTTP_OK == 200
HTTP_BAD_REQUEST == 400
HTTP_NOT_FOUND == 404
HTTP_SERVER_ERROR == 500

(* ------------------------------ domains -------------------------------- *)
Macs == {"m1", "m2"}
IpAddresses == {"ip1", "ip2"}
SerialNumbers == {"sn1", "sn2"}
\* the clock counts minutes; it starts late enough for the threshold
\* now - 5 minutes to start at the earliest beat time, 0
StartTime == TimeoutMinutes
MaxTime == StartTime + MaxElapsed
Times == 0 .. MaxElapsed
TaskIds == 1 .. MaxTasks
RestartCalls == 1 .. MaxRestartCalls
UpsertCalls == 1 .. MaxUpsertCalls
\* the value None of a task handle
None == 0
\* device_map.status: online, offline, or another state set by the registry
Statuses == {"online", "offline", "maintenance"}
\* no device_map row for the mac
NoDevice == "unregistered"
\* no write of the open transaction on the row
NoWrite == "nowrite"

VARIABLES
    clock,                    \* datetime.now(timezone.utc), in minutes
    heart_beat,               \* committed rows of table heart_beat
    device_map,               \* committed device_map.status per mac_address
    monitor_task,             \* module global monitor_task (app.py:72)
    monitor_enabled,          \* module global monitor_enabled (app.py:73)
    app_state_monitor_task,   \* app.state.monitor_task (app.py:110)
    phase,                    \* lifespan: "init", "running", "closing", "stopped"
    tasks,                    \* the reconciler tasks created so far
    restarts,                 \* in-flight restart_monitor calls: the awaited task
    resp,                     \* the last completed request and its response
    restart_history,          \* history: how the restart calls so far overlapped
    interleaved,              \* history: tasks whose open tick saw heart_beat change
    upserts                   \* the POST /heartbeat requests followed await by await

vars == <<clock, heart_beat, device_map, monitor_task, monitor_enabled,
          app_state_monitor_task, phase, tasks, restarts, resp,
          restart_history, interleaved, upserts>>


(* ---------------------- timestamps sent by clients --------------------- *)
\* beat_time is a string: ISO-8601 with a numeric offset, ISO-8601 with a
\* trailing Z, or text that is no timestamp
TimeStrings ==
    [form : {"offset", "Z"}, t : Times] \cup {[form |-> "garbage", t |-> 0]}
\* a field of HeartBeatUpdate that was not supplied (Python None)
Null == "null"
NullTime == [form |-> Null, t |-> 0]
\* the ValueError of datetime.fromisoformat
ParseError == -1

\* str.replace('Z', '+00:00')
replace_Z(s) == IF s.form = "Z" THEN [form |-> "offset", t |-> s.t] ELSE s

\* datetime.fromisoformat: accepts only the numeric-offset form
fromisoformat(s) == IF s.form = "offset" THEN s.t ELSE ParseError

\* datetime.fromisoformat(beat_time.replace('Z', '+00:00'))
parse_beat_time(s) == fromisoformat(replace_Z(s))

(* ------------------------------ the store ------------------------------ *)
\* SELECT ... FROM heart_beat WHERE mac_address = %s
select_heart_beat(table, mac) == {r \in table : r.mac_address = mac}

\* INSERT INTO heart_beat (ip_address, mac_address, sn, beat_time);
\* create_time is the column default, the server's now()
insert_heart_beat(table, mac, ip, sn, beat_time, now) ==
    table \cup {[mac_address |-> mac, ip_address |-> ip, sn |-> sn,
                 beat_time |-> beat_time, create_time |-> now]}

\* UPDATE heart_beat SET beat_time = %s WHERE mac_address = %s
update_beat_time(table, mac, beat_time) ==
    {IF r.mac_address = mac THEN [r EXCEPT !.beat_time = beat_time] ELSE r
     : r \in table}

\* mutant: the fields that were not supplied are rewritten too
update_fields_overwriting(table, mac, ip, sn, beat_time) ==
    {IF r.mac_address = mac
     THEN [r EXCEPT !.ip_address = ip,
                    !.sn = IF sn = Null THEN @ ELSE sn,
                    !.beat_time = IF beat_time = ParseError THEN @ ELSE beat_time]
     ELSE r
     : r \in table}

\* UPDATE heart_beat SET <supplied fields> WHERE mac_address = %s
update_fields(table, mac, ip, sn, beat_time) ==
    {IF r.mac_address = mac
     THEN [r EXCEPT !.ip_address = IF ip = Null THEN @ ELSE ip,
                    !.sn = IF sn = Null THEN @ ELSE sn,
                    !.beat_time = IF beat_time = ParseError THEN @ ELSE beat_time]
     ELSE r
     : r \in table}

\* DELETE FROM heart_beat WHERE mac_address = %s
delete_rows(table, mac) == {r \in table : r.mac_address # mac}

\* the exit of "async with conn.transaction()" without an exception: COMMIT
transaction_commit(committed, working) == working

\* mutant: the writes made before the exception stay
rollback_keeping_writes(committed, working) == working

\* the exit of "async with conn.transaction()" on an exception: ROLLBACK
transaction_rollback(committed, working) == committed

\* close_connection -> conn.close(): the connection is closed without a
\* commit, and the server discards what its open transaction wrote
close_connection(committed, working) == committed

(* -------------------------- responses ---------------------------------- *)
\* a completed request: the handler, its inputs, the HTTP status and the body
Response(op, request, code, body) ==
    [op |-> op, request |-> request, code |-> code, body |-> body]
NoRequest == [mac |-> ""]
NoResponse == Response("none", NoRequest, 0, "")

\* the handlers serve requests between startup and shutdown
Serving == phase = "running"

(* --------------------------- reconciler tasks --------------------------- *)
\* A task is parked at the await it last reached:
\*   "none"       not created            "start"      created, not yet run
\*   "sleep10"    asyncio.sleep(10)      "connect"    create_connection()
\*   "select_off" BEGIN + first SELECT   "update_off" UPDATE ... 'offline'
\*   "select_on"  second SELECT          "update_on"  UPDATE ... 'online'
\*   "commit"     COMMIT at block exit   "sleep30"    asyncio.sleep(30)
\*   "sleep60"    asyncio.sleep(60)      "done"       the coroutine has ended
NoWrites == [m \in Macs |-> NoWrite]

\* summary: the tick has emitted its summary observation (app.py:418-419)
Task(pc, conn, cancel, threshold, todo, writes, offline_count, online_count, summary) ==
    [pc |-> pc, conn |-> conn, cancel |-> cancel, threshold |-> threshold,
     todo |-> todo, writes |-> writes,
     offline_count |-> offline_count, online_count |-> online_count,
     summary |-> summary]

\* a task outside a tick: no connection, no transaction
Parked(pc) == Task(pc, FALSE, FALSE, 0, {}, NoWrites, 0, 0, FALSE)

\* Task.done()
done(t) == tasks[t].pc = "done"

\* a task that was started and has not finished
Live(t) == tasks[t].pc \notin {"none", "done"}
LiveTasks == {t \in TaskIds : Live(t)}

\* the event loop runs from startup until the lifespan has exited
LoopRunning == phase \in {"running", "closing"}

\* the awaits of a tick that talk to the store
StoreAwaits ==
    {"connect", "select_off", "update_off", "select_on", "update_on", "commit"}

\* the task is inside a tick: it has read the flag and not yet left the try
InTick(t) == tasks[t].pc \in StoreAwaits

\* the task has an open transaction with a threshold
InTransaction(t) == tasks[t].pc \in StoreAwaits \ {"connect"}

\* history: a committed change of heart_beat reaches every open tick
note_write(table) ==
    IF table = heart_beat THEN interleaved
    ELSE interleaved \cup {t \in TaskIds : InTransaction(t)}

\* a handler of the ledger touches the store and the response only
LedgerFrame ==
    /\ interleaved' = note_write(heart_beat')
    /\ UNCHANGED <<clock, device_map, monitor_task, monitor_enabled,
                   app_state_monitor_task, phase, tasks, restarts,
                   restart_history, upserts>>


(* ------------------------ heartbeat ledger ----------------------------- *)
\* mutant: the report replaces the record it finds
upsert_replacing_record(mac, ip, sn, beat_time_str, storage_ok) ==
    LET beat_time == parse_beat_time(beat_time_str)
        working == insert_heart_beat(delete_rows(heart_beat, mac), mac, ip, sn,
                                     beat_time, clock)
        request == [mac |-> mac, ip_address |-> ip, sn |-> sn,
                    beat_time |-> beat_time_str]
    IN  /\ Serving
        /\ IF (~storage_ok) \/ beat_time = ParseError
           THEN /\ heart_beat' = transaction_rollback(heart_beat, working)
                /\ resp' = Response("upsert", request, HTTP_SERVER_ERROR, "error")
           ELSE /\ heart_beat' = transaction_commit(heart_beat, working)
                /\ resp' = Response("upsert", request, HTTP_OK, device_map[mac])
        /\ LedgerFrame

\* mutant: the report also marks an offline device online
upsert_marking_online(mac, ip, sn, beat_time_str, storage_ok) ==
    LET beat_time == parse_beat_time(beat_time_str)
        existing_record == select_heart_beat(heart_beat, mac)
        working == IF existing_record # {}
                   THEN update_beat_time(heart_beat, mac, beat_time)
                   ELSE insert_heart_beat(heart_beat, mac, ip, sn, beat_time, clock)
        request == [mac |-> mac, ip_address |-> ip, sn |-> sn,
                    beat_time |-> beat_time_str]
    IN  /\ Serving
        /\ beat_time # ParseError
        /\ storage_ok
        /\ heart_beat' = transaction_commit(heart_beat, working)
        /\ device_map' = [device_map EXCEPT ![mac] =
                             IF @ = "offline" THEN "online" ELSE @]
        /\ resp' = Response("upsert", request, HTTP_OK, device_map'[mac])
        /\ interleaved' = note_write(heart_beat')
        /\ UNCHANGED <<clock, monitor_task, monitor_enabled,
                       app_state_monitor_task, phase, tasks, restarts,
                       restart_history, upserts>>

\* POST /heartbeat (app.py:134-201). storage_ok = FALSE: a statement or the
\* connection raises; the transaction is rolled back; HTTP 500. A beat_time
\* that does not parse raises ValueError, caught by the same handler.
upsert_heartbeat(mac, ip, sn, beat_time_str, storage_ok) ==
    LET beat_time == parse_beat_time(beat_time_str)
        existing_record == select_heart_beat(heart_beat, mac)
        working == IF existing_record # {}
                   THEN update_beat_time(heart_beat, mac, beat_time)
                   ELSE insert_heart_beat(heart_beat, mac, ip, sn, beat_time, clock)
        request == [mac |-> mac, ip_address |-> ip, sn |-> sn,
                    beat_time |-> beat_time_str]
    IN  /\ Serving
        /\ IF (~storage_ok) \/ beat_time = ParseError
           THEN /\ heart_beat' = transaction_rollback(heart_beat, working)
                /\ resp' = Response("upsert", request, HTTP_SERVER_ERROR, "error")
           ELSE /\ heart_beat' = transaction_commit(heart_beat, working)
                /\ resp' = Response("upsert", request, HTTP_OK, device_map[mac])
        /\ LedgerFrame

create_or_update_heartbeat ==
    \E mac \in Macs, ip \in IpAddresses, sn \in SerialNumbers,
       beat_time_str \in TimeStrings, storage_ok \in BOOLEAN :
        upsert_heartbeat(mac, ip, sn, beat_time_str, storage_ok)

\* GET /heartbeat/{mac_address} (app.py:203-229)
fetch_heartbeat(mac, storage_ok) ==
    LET record == select_heart_beat(heart_beat, mac)
        request == [mac |-> mac]
    IN  /\ Serving
        /\ resp' = IF ~storage_ok
                   THEN Response("get", request, HTTP_SERVER_ERROR, "error")
                   ELSE IF record = {}
                   THEN Response("get", request, HTTP_NOT_FOUND, "not found")
                   ELSE Response("get", request, HTTP_OK, CHOOSE r \in record : TRUE)
        /\ heart_beat' = close_connection(heart_beat, heart_beat)
        /\ LedgerFrame

get_heartbeat ==
    \E mac \in Macs, storage_ok \in BOOLEAN : fetch_heartbeat(mac, storage_ok)

\* the orders "ORDER BY beat_time DESC" may return the rows in
Orderings(rows) ==
    {s \in [1 .. Cardinality(rows) -> rows] :
        /\ \A i, j \in DOMAIN s : i # j => s[i] # s[j]
        /\ \A i, j \in DOMAIN s : i < j => s[i].beat_time >= s[j].beat_time}

\* LIMIT %s OFFSET %s
Page(s, limit, offset) ==
    SubSeq(s, offset + 1, IF offset + limit < Len(s) THEN offset + limit ELSE Len(s))

\* limit: int = 100, offset: int = 0, and smaller pages
Limits == {1, 100}
Offsets == {0, 1}

\* GET /heartbeat (app.py:231-252)
list_heartbeats ==
    \E limit \in Limits, offset \in Offsets, storage_ok \in BOOLEAN :
        LET request == [mac |-> ""]
        IN  /\ Serving
            /\ IF ~storage_ok
               THEN resp' = Response("list", request, HTTP_SERVER_ERROR, "error")
               ELSE \E s \in Orderings(heart_beat) :
                        resp' = Response("list", request, HTTP_OK,
                                         Page(s, limit, offset))
            /\ heart_beat' = close_connection(heart_beat, heart_beat)
            /\ LedgerFrame

\* updated_field_names, in the order the handler appends them
updated_field_names(ip, sn, beat_time_str) ==
    (IF ip # Null THEN <<"ip_address">> ELSE <<>>)
    \o (IF sn # Null THEN <<"sn">> ELSE <<>>)
    \o (IF beat_time_str # NullTime THEN <<"beat_time">> ELSE <<>>)

\* PUT /heartbeat/{mac_address} (app.py:254-315)
put_heartbeat(mac, ip, sn, beat_time_str, storage_ok) ==
    LET existing_record == select_heart_beat(heart_beat, mac)
        beat_time == IF beat_time_str = NullTime THEN ParseError
                     ELSE parse_beat_time(beat_time_str)
        names == updated_field_names(ip, sn, beat_time_str)
        working == update_fields(heart_beat, mac, ip, sn, beat_time)
        request == [mac |-> mac]
    IN  /\ Serving
        /\ IF ~storage_ok
           THEN /\ heart_beat' = transaction_rollback(heart_beat, working)
                /\ resp' = Response("update", request, HTTP_SERVER_ERROR, <<>>)
           ELSE IF existing_record = {}
           THEN /\ heart_beat' = transaction_rollback(heart_beat, working)
                /\ resp' = Response("update", request, HTTP_NOT_FOUND, <<>>)
           ELSE IF beat_time_str # NullTime /\ beat_time = ParseError
           THEN /\ heart_beat' = transaction_rollback(heart_beat, working)
                /\ resp' = Response("update", request, HTTP_SERVER_ERROR, <<>>)
           ELSE IF names = <<>>
           THEN /\ heart_beat' = transaction_rollback(heart_beat, working)
                /\ resp' = Response("update", request, HTTP_BAD_REQUEST, <<>>)
           ELSE /\ heart_beat' = transaction_commit(heart_beat, working)
                /\ resp' = Response("update", request, HTTP_OK, names)
        /\ LedgerFrame

update_heartbeat ==
    \E mac \in Macs, ip \in IpAddresses \cup {Null},
       sn \in SerialNumbers \cup {Null},
       beat_time_str \in TimeStrings \cup {NullTime}, storage_ok \in BOOLEAN :
        put_heartbeat(mac, ip, sn, beat_time_str, storage_ok)

\* DELETE /heartbeat/{mac_address} (app.py:317-341): the DELETE runs outside
\* any transaction block and the handler never commits; finally closes the
\* connection
remove_heartbeat(mac, storage_ok) ==
    LET working == delete_rows(heart_beat, mac)
        rowcount == Cardinality(heart_beat) - Cardinality(working)
        request == [mac |-> mac]
    IN  /\ Serving
        /\ resp' = IF ~storage_ok
                   THEN Response("delete", request, HTTP_SERVER_ERROR, "error")
                   ELSE IF rowcount = 0
                   THEN Response("delete", request, HTTP_NOT_FOUND, "not found")
                   ELSE Response("delete", request, HTTP_OK, "deleted successfully")
        /\ heart_beat' = close_connection(heart_beat, working)
        /\ LedgerFrame

delete_heartbeat ==
    \E mac \in Macs, storage_ok \in BOOLEAN : remove_heartbeat(mac, storage_ok)


(* --------------- POST /heartbeat, one await at a time ------------------- *)
\* Two requests for one mac can overlap: each runs on its own connection
\* and suspends at every await. A request is parked at the await it last
\* reached:
\*   "idle"     not received             "connect"  create_connection()
\*   "select"   BEGIN + SELECT id        "write"    UPDATE or INSERT
\*   "lookup"   SELECT * FROM device_map "commit"   COMMIT at block exit
\*   "returned" the response was sent
\* path: the branch of "if existing_record"; written: the UPDATE or INSERT
\* has run and is not committed; detail: str(e) of the HTTP 500
Call(pc, mac, ip, sn, beat_time_str, path, written, create_time, device_info, code, detail) ==
    [pc |-> pc, mac |-> mac, ip |-> ip, sn |-> sn,
     beat_time_str |-> beat_time_str, path |-> path, written |-> written,
     create_time |-> create_time, device_info |-> device_info,
     code |-> code, detail |-> detail]

IdleCall == Call("idle", "", "", "", NullTime, "none", FALSE, 0, "", 0, "")

CallAwaits == {"connect", "select", "write", "lookup", "commit"}

\* the table as the open transaction of call c has written it
pending(c, table) ==
    LET u == upserts[c]
    IN  IF ~u.written THEN table
        ELSE IF u.path = "create"
        THEN insert_heart_beat(table, u.mac, u.ip, u.sn,
                               parse_beat_time(u.beat_time_str), u.create_time)
        ELSE update_beat_time(table, u.mac, parse_beat_time(u.beat_time_str))

\* the open transaction of another request has written the row, or the
\* key, of mac: an UPDATE or INSERT for mac waits until it ends
KeyLocked(c, mac) ==
    \E d \in UpsertCalls \ {c} : upserts[d].written /\ upserts[d].mac = mac

\* heart_beat.mac_address is a unique key: an INSERT of a mac that has a
\* committed row raises UniqueViolation
unique_violation(table, mac) == select_heart_beat(table, mac) # {}

\* a step of a request leaves the reconciler and its control alone
CallFrame ==
    UNCHANGED <<clock, device_map, monitor_task, monitor_enabled,
                app_state_monitor_task, phase, tasks, restarts,
                restart_history>>

\* a step of a request that neither commits nor returns
CallStep == /\ UNCHANGED <<heart_beat, resp, interleaved>>
            /\ CallFrame

\* the handler returns: the response is sent and finally closes the
\* connection (app.py:189-201)
upsert_returns(c, code, body, detail) ==
    LET u == upserts[c]
        request == [mac |-> u.mac, ip_address |-> u.ip, sn |-> u.sn,
                    beat_time |-> u.beat_time_str]
    IN  /\ upserts' = [upserts EXCEPT ![c].pc = "returned",
                                      ![c].written = FALSE,
                                      ![c].code = code,
                                      ![c].detail = detail]
        /\ resp' = Response("upsert", request, code, body)
        /\ interleaved' = note_write(heart_beat')
        /\ CallFrame

\* the request arrives and awaits create_connection() (app.py:145-147)
upsert_request(c, mac, ip, sn, beat_time_str) ==
    /\ Serving
    /\ upserts[c].pc = "idle"
    /\ upserts' = [upserts EXCEPT ![c] =
                      Call("connect", mac, ip, sn, beat_time_str, "none", FALSE,
                           0, "", 0, "")]
    /\ CallStep

\* the connection is there; beat_time is parsed (app.py:150): ValueError
\* goes to "except Exception"; otherwise BEGIN and the existence check
\* are sent
upsert_connected(c) ==
    /\ Serving
    /\ upserts[c].pc = "connect"
    /\ IF parse_beat_time(upserts[c].beat_time_str) = ParseError
       THEN /\ heart_beat' = close_connection(heart_beat, heart_beat)
            /\ upsert_returns(c, HTTP_SERVER_ERROR, "error", "parse")
       ELSE /\ upserts' = [upserts EXCEPT ![c].pc = "select"]
            /\ CallStep

\* existing_record = await cur.fetchone() (app.py:156-162); the UPDATE or
\* the INSERT is sent
upsert_selected(c) ==
    /\ Serving
    /\ upserts[c].pc = "select"
    /\ upserts' = [upserts EXCEPT
                      ![c].pc = "write",
                      ![c].path =
                          IF select_heart_beat(heart_beat, upserts[c].mac) # {}
                          THEN "refresh" ELSE "create"]
    /\ CallStep

\* the UPDATE or the INSERT completes (app.py:164-179), after the
\* transaction that holds the row or the key has ended; the INSERT of a mac
\* that has a committed row by now raises; otherwise the device_map
\* lookup is sent
upsert_written(c) ==
    /\ Serving
    /\ upserts[c].pc = "write"
    /\ ~KeyLocked(c, upserts[c].mac)
    /\ IF upserts[c].path = "create" /\ unique_violation(heart_beat, upserts[c].mac)
       THEN /\ heart_beat' = transaction_rollback(heart_beat, pending(c, heart_beat))
            /\ upsert_returns(c, HTTP_SERVER_ERROR, "error", "unique")
       ELSE /\ upserts' = [upserts EXCEPT ![c].pc = "lookup",
                                          ![c].written = TRUE,
                                          ![c].create_time = clock]
            /\ CallStep

\* device_info = await cur.fetchone() (app.py:182-187); the block exits
\* and COMMIT is sent
upsert_looked_up(c) ==
    /\ Serving
    /\ upserts[c].pc = "lookup"
    /\ upserts' = [upserts EXCEPT ![c].pc = "commit",
                                  ![c].device_info = device_map[upserts[c].mac]]
    /\ CallStep

\* COMMIT returns; the handler returns device_info or the acknowledgement
upsert_committed(c) ==
    /\ Serving
    /\ upserts[c].pc = "commit"
    /\ heart_beat' = transaction_commit(heart_beat, pending(c, heart_beat))
    /\ upsert_returns(c, HTTP_OK, upserts[c].device_info, "")

\* mutant: the INSERT or UPDATE that ran before the failure stays
upsert_failed_keeping_write(c) ==
    /\ Serving
    /\ upserts[c].pc \in CallAwaits
    /\ heart_beat' = pending(c, heart_beat)
    /\ upsert_returns(c, HTTP_SERVER_ERROR, "error", "storage")

\* the store fails at the await the request is parked at: the transaction
\* block, if entered, rolls back; "except Exception" answers 500
upsert_failed(c) ==
    /\ Serving
    /\ upserts[c].pc \in CallAwaits
    /\ heart_beat' = transaction_rollback(heart_beat, pending(c, heart_beat))
    /\ upsert_returns(c, HTTP_SERVER_ERROR, "error", "storage")


(* ------------------------- the reconciler loop -------------------------- *)
\* timeout_threshold = datetime.now(timezone.utc) - timedelta(minutes=5)
timeout_threshold(now) == now - TimeoutMinutes

\* mutant: the comparison is not strict
is_timed_out_inclusive(beat_time, threshold) == beat_time <= threshold

\* WHERE h.beat_time < %s
is_timed_out(beat_time, threshold) == beat_time < threshold

\* mutant: the device at the threshold is not recent
is_recent_strict(beat_time, threshold) == beat_time > threshold

\* WHERE h.beat_time >= %s
is_recent(beat_time, threshold) == beat_time >= threshold

\* SELECT DISTINCT h.mac_address FROM heart_beat h INNER JOIN device_map d
\* ON h.mac_address = d.mac_address
\* WHERE h.beat_time < %s AND d.status != 'offline'
select_timeout_devices(hb, dm, threshold) ==
    {m \in Macs : /\ dm[m] # NoDevice
                  /\ dm[m] # "offline"
                  /\ \E r \in hb : /\ r.mac_address = m
                                   /\ is_timed_out(r.beat_time, threshold)}

\* mutant: every registered device that is not online is selected
select_online_not_online(hb, dm, threshold) ==
    {m \in Macs : /\ dm[m] # NoDevice
                  /\ dm[m] # "online"
                  /\ \E r \in hb : /\ r.mac_address = m
                                   /\ is_recent(r.beat_time, threshold)}

\* ... WHERE h.beat_time >= %s AND d.status = 'offline'
select_online_devices(hb, dm, threshold) ==
    {m \in Macs : /\ dm[m] = "offline"
                  /\ \E r \in hb : /\ r.mac_address = m
                                   /\ is_recent(r.beat_time, threshold)}

\* what a statement of task t's transaction reads (READ COMMITTED): the
\* committed rows, overlaid with the transaction's own writes
View(t) ==
    [m \in Macs |-> IF tasks[t].writes[m] # NoWrite THEN tasks[t].writes[m]
                    ELSE device_map[m]]

\* the row of m is locked by the open transaction of another task
RowLocked(t, m) == \E u \in TaskIds \ {t} : tasks[u].writes[m] # NoWrite

\* cur.rowcount of UPDATE device_map ... WHERE mac_address = %s
rowcount(dm, m) == IF dm[m] # NoDevice THEN 1 ELSE 0

\* COMMIT: the transaction's writes replace the committed values
apply_writes(dm, writes) ==
    [m \in Macs |-> IF writes[m] # NoWrite THEN writes[m] ELSE dm[m]]

\* mutant: the flag is not read
loop_top_ignoring_flag == Parked("connect")

\* the top of "while True": the flag is read, then the task suspends either
\* in asyncio.sleep(10) or in create_connection()
loop_top == IF ~monitor_enabled THEN Parked("sleep10") ELSE Parked("connect")

\* a step of a task that touches only the task
TaskFrame ==
    UNCHANGED <<clock, heart_beat, device_map, monitor_task, monitor_enabled,
                app_state_monitor_task, phase, restarts, resp, restart_history,
                upserts>>

\* a step of a task that may also commit to device_map
CommitFrame ==
    UNCHANGED <<clock, heart_beat, monitor_task, monitor_enabled,
                app_state_monitor_task, phase, restarts, resp, restart_history,
                upserts>>

\* task t is resumed normally from the await pc
Resumes(t, pc) == /\ LoopRunning
                  /\ tasks[t].pc = pc
                  /\ ~tasks[t].cancel

\* task t goes back to the top of the loop
next_iteration(t, pc) ==
    /\ Resumes(t, pc)
    /\ tasks' = [tasks EXCEPT ![t] = loop_top]
    /\ UNCHANGED interleaved
    /\ TaskFrame

\* the task runs for the first time
monitor_start == \E t \in TaskIds : next_iteration(t, "start")

\* asyncio.sleep(10) returns: continue (the finally closes nothing)
monitor_wake_disabled == \E t \in TaskIds : next_iteration(t, "sleep10")

\* asyncio.sleep(30) returns: next iteration
monitor_wake == \E t \in TaskIds : next_iteration(t, "sleep30")

\* mutant: without the "continue", the back-off is followed by the delay
monitor_backoff_then_delay ==
    \E t \in TaskIds :
        /\ Resumes(t, "sleep60")
        /\ tasks' = [tasks EXCEPT ![t] = Parked("sleep30")]
        /\ UNCHANGED interleaved
        /\ TaskFrame

\* asyncio.sleep(60) returns: continue; finally close_connection; next
\* iteration without the 30-second delay
monitor_backoff_done == \E t \in TaskIds : next_iteration(t, "sleep60")

\* create_connection() returns; the threshold is computed; BEGIN and the
\* first SELECT are sent
begin_tick(t) ==
    /\ Resumes(t, "connect")
    /\ tasks' = [tasks EXCEPT ![t] =
                    Task("select_off", TRUE, FALSE, timeout_threshold(clock),
                         {}, NoWrites, 0, 0, FALSE)]
    /\ interleaved' = interleaved \ {t}
    /\ TaskFrame

monitor_connected == \E t \in TaskIds : begin_tick(t)

\* mutant: the summary is emitted on every tick
emit_summary_always(offline_count, online_count) == TRUE

\* if offline_count > 0 or online_count > 0: logger.info(...), the last
\* statement inside the transaction block
emit_summary(offline_count, online_count) ==
    offline_count > 0 \/ online_count > 0

\* the pc after a SELECT returned the devices todo
after_select(todo, update_pc, next_pc) == IF todo = {} THEN next_pc ELSE update_pc

\* timeout_devices = await cur.fetchall()
monitor_select_timeout ==
    \E t \in TaskIds :
        LET todo == select_timeout_devices(heart_beat, View(t), tasks[t].threshold)
        IN  /\ Resumes(t, "select_off")
            /\ tasks' = [tasks EXCEPT ![t].todo = todo,
                                      ![t].pc = after_select(todo, "update_off", "select_on")]
            /\ UNCHANGED interleaved
            /\ TaskFrame

\* UPDATE device_map SET status = 'offline' WHERE mac_address = %s, for
\* the next device of the for loop
monitor_update_offline ==
    \E t \in TaskIds, m \in Macs :
        /\ Resumes(t, "update_off")
        /\ m \in tasks[t].todo
        /\ ~RowLocked(t, m)
        /\ tasks' = [tasks EXCEPT ![t].writes[m] = "offline",
                                  ![t].todo = @ \ {m},
                                  ![t].offline_count = @ + rowcount(View(t), m),
                                  ![t].pc = after_select(tasks[t].todo \ {m},
                                                         "update_off", "select_on")]
        /\ UNCHANGED interleaved
        /\ TaskFrame

\* online_devices = await cur.fetchall()
monitor_select_online ==
    \E t \in TaskIds :
        LET todo == select_online_devices(heart_beat, View(t), tasks[t].threshold)
        IN  /\ Resumes(t, "select_on")
            /\ tasks' = [tasks EXCEPT ![t].todo = todo,
                                      ![t].pc = after_select(todo, "update_on", "commit"),
                                      ![t].summary =
                                          /\ todo = {}
                                          /\ emit_summary(tasks[t].offline_count,
                                                          tasks[t].online_count)]
            /\ UNCHANGED interleaved
            /\ TaskFrame

\* UPDATE device_map SET status = 'online' WHERE mac_address = %s; after
\* the last device the summary is logged and the block exits into COMMIT
monitor_update_online ==
    \E t \in TaskIds, m \in Macs :
        /\ Resumes(t, "update_on")
        /\ m \in tasks[t].todo
        /\ ~RowLocked(t, m)
        /\ tasks' = [tasks EXCEPT ![t].writes[m] = "online",
                                  ![t].todo = @ \ {m},
                                  ![t].online_count = @ + rowcount(View(t), m),
                                  ![t].pc = after_select(tasks[t].todo \ {m},
                                                         "update_on", "commit"),
                                  ![t].summary =
                                      /\ tasks[t].todo \ {m} = {}
                                      /\ emit_summary(tasks[t].offline_count,
                                             tasks[t].online_count
                                                 + rowcount(View(t), m))]
        /\ UNCHANGED interleaved
        /\ TaskFrame

\* the transaction block exits: COMMIT; finally close_connection; then the
\* task suspends in asyncio.sleep(30)
commit_tick(t) ==
    /\ Resumes(t, "commit")
    /\ device_map' = transaction_commit(device_map,
                                        apply_writes(device_map, tasks[t].writes))
    /\ tasks' = [tasks EXCEPT ![t] = Parked("sleep30")]
    /\ UNCHANGED interleaved
    /\ CommitFrame

monitor_commit == \E t \in TaskIds : commit_tick(t)

ErrorKinds == {"connection", "other"}

\* "except Exception": a store operation raises. The transaction is rolled
\* back. If the text contains "connection" the task sleeps 60 s inside the
\* handler, still holding its connection; otherwise finally closes the
\* connection and the task sleeps 30 s.
monitor_error ==
    \E t \in TaskIds, kind \in ErrorKinds :
        /\ LoopRunning
        /\ InTick(t)
        /\ ~tasks[t].cancel
        /\ tasks' = [tasks EXCEPT ![t] =
                        IF kind = "connection"
                        THEN Task("sleep60", tasks[t].conn, FALSE, 0, {}, NoWrites,
                                  0, 0, FALSE)
                        ELSE Parked("sleep30")]
        /\ device_map' = transaction_rollback(device_map,
                                              apply_writes(device_map, tasks[t].writes))
        /\ UNCHANGED interleaved
        /\ CommitFrame

\* mutant: the cancellation is caught by "except Exception" like an error
monitor_cancel_as_error ==
    \E t \in TaskIds :
        /\ LoopRunning
        /\ Live(t)
        /\ tasks[t].cancel
        /\ tasks' = [tasks EXCEPT ![t] = Parked("sleep30")]
        /\ device_map' = transaction_rollback(device_map,
                              apply_writes(device_map, tasks[t].writes))
        /\ UNCHANGED interleaved
        /\ CommitFrame

\* CancelledError is thrown into the task at the await where it is parked.
\* Inside the try it is caught (break); in sleep(60) and sleep(30) it
\* propagates. Either way finally closes the connection and the coroutine
\* ends. A COMMIT that was in flight has taken effect or has not.
monitor_cancelled ==
    \E t \in TaskIds, committed \in BOOLEAN :
        /\ LoopRunning
        /\ Live(t)
        /\ tasks[t].cancel
        /\ committed => tasks[t].pc = "commit"
        /\ tasks' = [tasks EXCEPT ![t] = Parked("done")]
        /\ device_map' = IF committed
                         THEN transaction_commit(device_map,
                                  apply_writes(device_map, tasks[t].writes))
                         ELSE transaction_rollback(device_map,
                                  apply_writes(device_map, tasks[t].writes))
        /\ UNCHANGED interleaved
        /\ CommitFrame


(* ------------------------------ lifespan -------------------------------- *)
\* asyncio.create_task(monitor_heartbeat_task()): the next unused task
Unused == {t \in TaskIds : tasks[t].pc = "none"}
NewTask == CHOOSE t \in Unused : \A u \in Unused : t <= u

\* a step of the lifespan or of monitor control leaves the store alone
ControlFrame ==
    UNCHANGED <<clock, heart_beat, device_map, interleaved, upserts>>

\* startup (app.py:99-114): the store is probed and the reconciler started.
\* The assignment "monitor_task = ..." binds a local of lifespan: the module
\* global stays None and only app.state.monitor_task holds the task.
lifespan_startup ==
    \E storage_ok \in BOOLEAN :
        /\ phase = "init"
        /\ IF storage_ok
           THEN /\ tasks' = [tasks EXCEPT ![NewTask] = Parked("start")]
                /\ app_state_monitor_task' = NewTask
                /\ phase' = "running"
           ELSE /\ phase' = "stopped"
                /\ UNCHANGED <<tasks, app_state_monitor_task>>
        /\ UNCHANGED <<monitor_task, monitor_enabled, restarts, resp,
                       restart_history>>
        /\ ControlFrame

\* no request is in flight
NoRequestInFlight == \A r \in RestartCalls : restarts[r] = None

\* shutdown (app.py:119-129): app.state.monitor_task is cancelled and
\* awaited; the server has let the requests in flight finish before
lifespan_shutdown ==
    /\ phase = "running"
    /\ NoRequestInFlight
    /\ IF app_state_monitor_task # None /\ ~done(app_state_monitor_task)
       THEN /\ tasks' = [tasks EXCEPT ![app_state_monitor_task].cancel = TRUE]
            /\ phase' = "closing"
       ELSE /\ phase' = "stopped"
            /\ UNCHANGED tasks
    /\ UNCHANGED <<monitor_task, monitor_enabled, app_state_monitor_task,
                   restarts, resp, restart_history>>
    /\ ControlFrame

\* "await app.state.monitor_task" returns: the lifespan exits
lifespan_shutdown_done ==
    /\ phase = "closing"
    /\ done(app_state_monitor_task)
    /\ phase' = "stopped"
    /\ UNCHANGED <<monitor_task, monitor_enabled, app_state_monitor_task,
                   tasks, restarts, resp, restart_history>>
    /\ ControlFrame

(* --------------------------- monitor control ---------------------------- *)
\* 'running' if monitor_task and not monitor_task.done() else 'stopped'
task_status(handle) ==
    IF handle # None /\ ~done(handle) THEN "running" ELSE "stopped"

\* a probe or a flag handler leaves the tasks and their handles alone
HandlerFrame ==
    /\ UNCHANGED <<monitor_task, app_state_monitor_task, phase, tasks, restarts,
                   restart_history>>
    /\ ControlFrame

\* POST /monitor/enable (app.py:475-492)
enable_monitor ==
    /\ Serving
    /\ monitor_enabled' = TRUE
    /\ resp' = Response("enable", NoRequest, HTTP_OK, "success")
    /\ HandlerFrame

\* POST /monitor/disable (app.py:494-511)
disable_monitor ==
    /\ Serving
    /\ monitor_enabled' = FALSE
    /\ resp' = Response("disable", NoRequest, HTTP_OK, "success")
    /\ HandlerFrame

\* GET /monitor/status (app.py:513-532)
get_monitor_status ==
    /\ Serving
    /\ resp' = Response("status", NoRequest, HTTP_OK,
                        [monitor_enabled |-> monitor_enabled,
                         task_status |-> task_status(monitor_task)])
    /\ UNCHANGED monitor_enabled
    /\ HandlerFrame

\* GET /health (app.py:447-473)
health_check ==
    \E storage_ok \in BOOLEAN :
        /\ Serving
        /\ resp' = IF storage_ok
                   THEN Response("health", NoRequest, HTTP_OK,
                                 [monitor_enabled |-> monitor_enabled,
                                  task_status |-> task_status(monitor_task)])
                   ELSE Response("health", NoRequest, HTTP_OK,
                                 [status |-> "unhealthy",
                                  task_status |-> "unknown"])
        /\ UNCHANGED monitor_enabled
        /\ HandlerFrame

\* GET / (app.py:438-445)
root ==
    /\ Serving
    /\ resp' = Response("root", NoRequest, HTTP_OK, "running")
    /\ UNCHANGED monitor_enabled
    /\ HandlerFrame

\* restart_monitor, second half (app.py:552-563): a fresh task is created
\* and stored in the module global, and monitoring is enabled
relaunch ==
    /\ tasks' = [tasks EXCEPT ![NewTask] = Parked("start")]
    /\ monitor_task' = NewTask
    /\ monitor_enabled' = TRUE
    /\ resp' = Response("restart", NoRequest, HTTP_OK, "success")
    /\ restart_history' = IF restart_history = "overlapped" THEN "overlapped"
                          ELSE "sequential"

\* every restart in flight, and this one, can still create its task
CanCreateTask ==
    Cardinality(Unused) > Cardinality({r \in RestartCalls : restarts[r] # None})

\* POST /monitor/restart, first half (app.py:543-550): the task the module
\* global names is cancelled and awaited, if it names one that is not done;
\* otherwise the handler runs to its end without suspending
restart_monitor ==
    \E r \in RestartCalls :
        /\ Serving
        /\ restarts[r] = None
        /\ CanCreateTask
        /\ IF monitor_task # None /\ ~done(monitor_task)
           THEN /\ tasks' = [tasks EXCEPT ![monitor_task].cancel = TRUE]
                /\ restarts' = [restarts EXCEPT ![r] = monitor_task]
                /\ restart_history' = IF NoRequestInFlight THEN restart_history
                                      ELSE "overlapped"
                /\ UNCHANGED <<monitor_task, monitor_enabled, resp>>
           ELSE /\ relaunch
                /\ UNCHANGED restarts
        /\ UNCHANGED <<app_state_monitor_task, phase>>
        /\ ControlFrame

\* "await monitor_task" returns in a suspended restart_monitor
restart_resume ==
    \E r \in RestartCalls :
        /\ LoopRunning
        /\ restarts[r] # None
        /\ done(restarts[r])
        /\ relaunch
        /\ restarts' = [restarts EXCEPT ![r] = None]
        /\ UNCHANGED <<app_state_monitor_task, phase>>
        /\ ControlFrame

(* ------------------------------- time ----------------------------------- *)
\* a minute passes
Tick ==
    /\ clock < MaxTime
    /\ clock' = clock + 1
    /\ UNCHANGED <<heart_beat, device_map, monitor_task, monitor_enabled,
                   app_state_monitor_task, phase, tasks, restarts, resp,
                   restart_history, interleaved, upserts>>

(* ------------------------- the whole program ---------------------------- *)
\* the process before startup: module globals as initialised (app.py:72-73),
\* an empty heartbeat table, and whatever registry the device table holds
Init ==
    /\ clock = StartTime
    /\ heart_beat = {}
    /\ device_map \in [Macs -> Statuses \cup {NoDevice}]
    /\ monitor_task = None
    /\ monitor_enabled = TRUE
    /\ app_state_monitor_task = None
    /\ phase = "init"
    /\ tasks = [t \in TaskIds |-> Parked("none")]
    /\ restarts = [r \in RestartCalls |-> None]
    /\ resp = NoResponse
    /\ restart_history = "none"
    /\ interleaved = {}
    /\ upserts = [c \in UpsertCalls |-> IdleCall]

Next ==
    \/ lifespan_startup
    \/ lifespan_shutdown
    \/ lifespan_shutdown_done
    \/ create_or_update_heartbeat
    \/ get_heartbeat
    \/ list_heartbeats
    \/ update_heartbeat
    \/ delete_heartbeat
    \/ root
    \/ health_check
    \/ enable_monitor
    \/ disable_monitor
    \/ get_monitor_status
    \/ restart_monitor
    \/ restart_resume
    \/ monitor_start
    \/ monitor_wake_disabled
    \/ monitor_connected
    \/ monitor_select_timeout
    \/ monitor_update_offline
    \/ monitor_select_online
    \/ monitor_update_online
    \/ monitor_commit
    \/ monitor_wake
    \/ monitor_backoff_done
    \/ monitor_error
    \/ monitor_cancelled
    \/ Tick

\* the whole program
Spec == Init /\ [][Next]_vars

(* ------------------ the lifecycle of the reconciler tasks --------------- *)
\* The bookkeeping of the task handles never reads the store: here the
\* device registry is empty, so every sweep selects nothing and commits.
ControlInit == Init /\ device_map = [m \in Macs |-> NoDevice]

ControlNext ==
    \/ lifespan_startup
    \/ lifespan_shutdown
    \/ lifespan_shutdown_done
    \/ enable_monitor
    \/ disable_monitor
    \/ get_monitor_status
    \/ health_check
    \/ restart_monitor
    \/ restart_resume
    \/ monitor_start
    \/ monitor_wake_disabled
    \/ monitor_connected
    \/ monitor_select_timeout
    \/ monitor_select_online
    \/ monitor_commit
    \/ monitor_wake
    \/ monitor_backoff_done
    \/ monitor_error
    \/ monitor_cancelled

ControlSpec == ControlInit /\ [][ControlNext]_vars

\* The event loop resumes a task that was cancelled and a coroutine whose
\* awaited task has finished.
ControlFairSpec ==
    /\ ControlSpec
    /\ WF_vars(monitor_cancelled)
    /\ WF_vars(restart_resume)
    /\ WF_vars(lifespan_shutdown_done)

(* ------------------- the reconciler against the store ------------------- *)
\* POST /heartbeat as the reconciler sees it: it reads beat_time only, so
\* the other fields of the report are fixed
heartbeat_report ==
    \E mac \in Macs, t \in Times :
        upsert_heartbeat(mac, "ip1", "sn1", [form |-> "Z", t |-> t], TRUE)

\* one reconciler task (no restart), the flag handlers, heartbeats, time
SweepNext ==
    \/ lifespan_startup
    \/ lifespan_shutdown
    \/ lifespan_shutdown_done
    \/ heartbeat_report
    \/ enable_monitor
    \/ disable_monitor
    \/ monitor_start
    \/ monitor_wake_disabled
    \/ monitor_connected
    \/ monitor_select_timeout
    \/ monitor_update_offline
    \/ monitor_select_online
    \/ monitor_update_online
    \/ monitor_commit
    \/ monitor_wake
    \/ monitor_backoff_done
    \/ monitor_error
    \/ monitor_cancelled
    \/ Tick

SweepSpec == Init /\ [][SweepNext]_vars

\* The event loop resumes every task whose await has completed: a timer
\* that has expired, a cancellation that was requested.
SweepFairSpec ==
    /\ SweepSpec
    /\ WF_vars(monitor_wake)
    /\ WF_vars(monitor_wake_disabled)
    /\ WF_vars(monitor_backoff_done)
    /\ WF_vars(monitor_cancelled)

(* ------------------------- the heartbeat ledger ------------------------- *)
\* The reconciler never writes heart_beat: the ledger is checked with the
\* handlers of the table alone, against a registry that knows one device.
LedgerInit ==
    Init /\ device_map = [m \in Macs |-> IF m = "m1" THEN "online" ELSE NoDevice]

LedgerNext ==
    \/ lifespan_startup
    \/ create_or_update_heartbeat
    \/ get_heartbeat
    \/ list_heartbeats
    \/ update_heartbeat
    \/ delete_heartbeat
    \/ Tick

LedgerSpec == LedgerInit /\ [][LedgerNext]_vars


(* --------------------------- partial updates ---------------------------- *)
\* PUT /heartbeat/{mac_address} with every combination of supplied fields,
\* on records that heartbeat reports created
update_request ==
    \E mac \in Macs, ip \in IpAddresses \cup {Null},
       sn \in SerialNumbers \cup {Null},
       beat_time_str \in TimeStrings \cup {NullTime} :
        put_heartbeat(mac, ip, sn, beat_time_str, TRUE)

UpdateNext ==
    \/ lifespan_startup
    \/ heartbeat_report
    \/ update_request
    \/ Tick

UpdateSpec == LedgerInit /\ [][UpdateNext]_vars

(* ------------------------ overlapping heartbeats ------------------------ *)
\* the fields a request sends besides mac and beat_time tell the requests
\* apart
IpOf(c) == IF c = 1 THEN "ip1" ELSE "ip2"
SnOf(c) == IF c = 1 THEN "sn1" ELSE "sn2"

race_request ==
    \E c \in UpsertCalls, mac \in Macs,
       beat_time_str \in [form : {"Z"}, t : Times]
                             \cup {[form |-> "garbage", t |-> 0]} :
        upsert_request(c, mac, IpOf(c), SnOf(c), beat_time_str)

race_connected == \E c \in UpsertCalls : upsert_connected(c)
race_selected == \E c \in UpsertCalls : upsert_selected(c)
race_written == \E c \in UpsertCalls : upsert_written(c)
race_looked_up == \E c \in UpsertCalls : upsert_looked_up(c)
race_committed == \E c \in UpsertCalls : upsert_committed(c)
race_failed == \E c \in UpsertCalls : upsert_failed(c)

RaceNext ==
    \/ lifespan_startup
    \/ race_request
    \/ race_connected
    \/ race_selected
    \/ race_written
    \/ race_looked_up
    \/ race_committed
    \/ race_failed
    \/ Tick

RaceSpec == LedgerInit /\ [][RaceNext]_vars

(* --------------- every handler beside the reconciler tasks -------------- *)
\* Every handler of the API with the reconciler tasks it can start, against
\* one registered device, with the request fields fixed that neither the
\* reconciler nor device_map depends on.
FrameDevice == "m1"
FrameInit ==
    /\ Init
    /\ device_map[FrameDevice] \in {"online", "offline"}
    /\ \A m \in Macs \ {FrameDevice} : device_map[m] = NoDevice

frame_heartbeat ==
    \E t \in Times :
        upsert_heartbeat(FrameDevice, "ip1", "sn1", [form |-> "Z", t |-> t], TRUE)

frame_get == fetch_heartbeat(FrameDevice, TRUE)

frame_update ==
    \E t \in Times :
        put_heartbeat(FrameDevice, Null, Null, [form |-> "Z", t |-> t], TRUE)

frame_delete == remove_heartbeat(FrameDevice, TRUE)

\* the first POST /monitor/restart after startup: the module global names no
\* task yet, so the handler creates its task without suspending
frame_restart ==
    /\ monitor_task = None
    /\ restart_monitor

FrameNext ==
    \/ lifespan_startup
    \/ lifespan_shutdown
    \/ lifespan_shutdown_done
    \/ frame_heartbeat
    \/ frame_get
    \/ frame_update
    \/ frame_delete
    \/ list_heartbeats
    \/ root
    \/ health_check
    \/ enable_monitor
    \/ disable_monitor
    \/ get_monitor_status
    \/ frame_restart
    \/ monitor_start
    \/ monitor_wake_disabled
    \/ monitor_connected
    \/ monitor_select_timeout
    \/ monitor_update_offline
    \/ monitor_select_online
    \/ monitor_update_online
    \/ monitor_commit
    \/ monitor_wake
    \/ monitor_backoff_done
    \/ monitor_error
    \/ monitor_cancelled
    \/ Tick

FrameSpec == FrameInit /\ [][FrameNext]_vars


(* ============================== claims ================================== *)

\* C1: after startup and N >= 1 restart calls made one after another,
\* exactly one reconciler task is live.
C1_OneLiveAfterSequentialRestarts ==
    (phase = "running" /\ restart_history = "sequential" /\ NoRequestInFlight)
        => Cardinality(LiveTasks) = 1

\* C2: in every reachable state at most one reconciler task is live.
C2_AtMostOneLiveTask == Cardinality(LiveTasks) <= 1

\* C3: while the process serves requests, the status the monitor-status and
\* health probes report is "running" exactly when a reconciler task is live.
C3_StatusReflectsLiveTask ==
    Serving => (task_status(monitor_task) = "running" <=> LiveTasks # {})

\* C4: when shutdown has completed no reconciler task is live, whatever
\* enable, disable and restart calls came before.
C4_NoLiveTaskAfterShutdown == phase = "stopped" => LiveTasks = {}

\* C5: delete of a mac without a record answers NotFound and changes
\* nothing; delete of a mac with a record answers success and the record is
\* gone from the committed table, so a later get answers NotFound.
C5_DeleteRemovesRecord ==
    [][\A mac \in Macs :
        remove_heartbeat(mac, TRUE) =>
            IF select_heart_beat(heart_beat, mac) = {}
            THEN resp'.code = HTTP_NOT_FOUND /\ heart_beat' = heart_beat
            ELSE /\ resp'.code = HTTP_OK
                 /\ select_heart_beat(heart_beat', mac) = {}]_vars

\* a step that completes a successful POST /heartbeat
UpsertStep ==
    /\ resp'.op = "upsert"
    /\ resp'.code = HTTP_OK
    /\ <<heart_beat, resp>>' # <<heart_beat, resp>>

\* C6: an upsert for a mac leaves exactly one record for it, with the
\* beat_time of this upsert; when a record existed (an earlier upsert made
\* it) its ip_address, sn and create_time stay, whatever this upsert sent.
C6_UpsertKeepsIdentity ==
    [][UpsertStep =>
        LET request == resp'.request
            before == select_heart_beat(heart_beat, request.mac)
            after == select_heart_beat(heart_beat', request.mac)
        IN  /\ Cardinality(after) = 1
            /\ \A r \in after :
                /\ r.beat_time = parse_beat_time(request.beat_time)
                /\ \A b \in before : /\ r.ip_address = b.ip_address
                                     /\ r.sn = b.sn
                                     /\ r.create_time = b.create_time
                /\ before = {} => /\ r.ip_address = request.ip_address
                                  /\ r.sn = request.sn
                                  /\ r.create_time = clock]_vars

\* a second upsert that sent another ip_address and sn, later than the first
C6_Witness ==
    /\ resp.op = "upsert"
    /\ resp.code = HTTP_OK
    /\ \E r \in select_heart_beat(heart_beat, resp.request.mac) :
        /\ r.ip_address # resp.request.ip_address
        /\ r.sn # resp.request.sn
        /\ r.create_time < clock
        /\ r.beat_time = parse_beat_time(resp.request.beat_time)

\* C7: a change of device_map.status is the COMMIT of a reconciler tick;
\* no request handler changes a status.
C7_OnlyTheReconcilerSetsStatus ==
    [][device_map' # device_map =>
        \E t \in TaskIds : /\ tasks[t].pc = "commit"
                           /\ tasks'[t].pc \in {"sleep30", "done"}
                           /\ device_map' = apply_writes(device_map, tasks[t].writes)
                           /\ resp' = resp]_vars

\* an upsert with a fresh beat_time has returned for a device that is
\* still offline
C7_Witness ==
    /\ resp.op = "upsert"
    /\ resp.code = HTTP_OK
    /\ device_map[resp.request.mac] = "offline"
    /\ \E r \in select_heart_beat(heart_beat, resp.request.mac) :
        is_recent(r.beat_time, timeout_threshold(clock))


\* the beat times recorded for a mac
BeatTimes(m) == {r.beat_time : r \in select_heart_beat(heart_beat, m)}

\* task t completes a sweep without error (its COMMIT returns) and no
\* heartbeat was written since the sweep computed its threshold
CleanSweep(t) == commit_tick(t) /\ t \notin interleaved

\* C8: a sweep that completes without error sets online every registered
\* device that is offline and whose recorded heartbeat is within the
\* 5-minute window of that sweep; the heartbeat alone did not (C7).
C8_NextSweepSetsOnline ==
    [][\A t \in TaskIds : CleanSweep(t) =>
        \A m \in Macs :
            (/\ device_map[m] = "offline"
             /\ \E b \in BeatTimes(m) : b >= tasks[t].threshold)
                => device_map'[m] = "online"]_vars

\* a sweep is about to commit "online" for an offline device whose
\* heartbeat arrived before the sweep began
C8_Witness ==
    \E t \in TaskIds, m \in Macs :
        /\ tasks[t].pc = "commit"
        /\ t \notin interleaved
        /\ device_map[m] = "offline"
        /\ tasks[t].writes[m] = "online"
        /\ resp.op = "upsert"
        /\ resp.request.mac = m

\* the task is inside a tick, in the tasks ts
InTickOf(ts, t) == ts[t].pc \in StoreAwaits

\* C9 as claimed: between disable() and the next enable() or restart() no
\* device status changes.
C9_NoStatusChangeWhileDisabled ==
    [][(~monitor_enabled /\ ~monitor_enabled') => device_map' = device_map]_vars

\* C9 as amended: while enabled = false no task begins a tick, a status
\* changes only when a tick that was already under way leaves its
\* transaction, and no task ends unless it was cancelled.
C9_NoTickBeginsWhileDisabled ==
    [][~monitor_enabled =>
        /\ \A t \in TaskIds : InTickOf(tasks', t) => InTickOf(tasks, t)
        /\ device_map' # device_map =>
              \E t \in TaskIds : InTickOf(tasks, t) /\ ~InTickOf(tasks', t)
        /\ \A t \in TaskIds :
              (Live(t) /\ ~tasks[t].cancel) => tasks'[t].pc \notin {"none", "done"}]_vars

\* disable() has returned and the task polls the flag
C9_Witness ==
    /\ ~monitor_enabled
    /\ resp.op = "disable"
    /\ \E t \in TaskIds : tasks[t].pc = "sleep10"

\* C10: in a sweep that completes without error, a registered device whose
\* beat_time equals the threshold is not set offline, and is set online if
\* it was offline; a device is set offline only if its beat_time is
\* strictly less than the threshold.
C10_BoundaryIsNotTimedOut ==
    [][\A t \in TaskIds : CleanSweep(t) =>
        \A m \in Macs :
            /\ (device_map[m] # NoDevice /\ tasks[t].threshold \in BeatTimes(m))
                  => device_map'[m] = IF device_map[m] = "offline" THEN "online"
                                      ELSE device_map[m]
            /\ (device_map[m] # "offline" /\ device_map'[m] = "offline")
                  => \E b \in BeatTimes(m) : b < tasks[t].threshold]_vars

\* a sweep is about to commit and leaves alone an online device whose
\* beat_time is exactly its threshold
C10_Witness ==
    \E t \in TaskIds, m \in Macs :
        /\ tasks[t].pc = "commit"
        /\ t \notin interleaved
        /\ device_map[m] = "online"
        /\ BeatTimes(m) = {tasks[t].threshold}
        /\ tasks[t].writes[m] = NoWrite

\* the records of every mac but one
OtherRecords(table, mac) == {r \in table : r.mac_address # mac}

\* the beat_time strings that denote a timestamp
WellFormed == {s \in TimeStrings : s.form # "garbage"}

\* C11: update with no field supplied fails with InvalidRequest and leaves
\* the record unchanged; update with exactly one field supplied rewrites
\* only that field, leaves every other field and every other record
\* unchanged and reports exactly that field name; update of an absent mac
\* fails with NotFound and changes nothing.
C11_UpdateRewritesSuppliedFieldOnly ==
    [][resp'.op = "update" =>
        \A mac \in {resp'.request.mac}, ip \in IpAddresses \cup {Null},
           sn \in SerialNumbers \cup {Null},
           beat_time_str \in WellFormed \cup {NullTime} :
            put_heartbeat(mac, ip, sn, beat_time_str, TRUE) =>
                LET before == select_heart_beat(heart_beat, mac)
                    after == select_heart_beat(heart_beat', mac)
                    none == ip = Null /\ sn = Null /\ beat_time_str = NullTime
                    only_ip == ip # Null /\ sn = Null /\ beat_time_str = NullTime
                    only_sn == ip = Null /\ sn # Null /\ beat_time_str = NullTime
                    only_bt == ip = Null /\ sn = Null /\ beat_time_str # NullTime
                IN  /\ OtherRecords(heart_beat', mac) = OtherRecords(heart_beat, mac)
                    /\ before = {} =>
                          resp'.code = HTTP_NOT_FOUND /\ heart_beat' = heart_beat
                    /\ (before # {} /\ none) =>
                          resp'.code = HTTP_BAD_REQUEST /\ heart_beat' = heart_beat
                    /\ (before # {} /\ only_ip) =>
                          /\ resp'.code = HTTP_OK /\ resp'.body = <<"ip_address">>
                          /\ after = {[b EXCEPT !.ip_address = ip] : b \in before}
                    /\ (before # {} /\ only_sn) =>
                          /\ resp'.code = HTTP_OK /\ resp'.body = <<"sn">>
                          /\ after = {[b EXCEPT !.sn = sn] : b \in before}
                    /\ (before # {} /\ only_bt) =>
                          /\ resp'.code = HTTP_OK /\ resp'.body = <<"beat_time">>
                          /\ after = {[b EXCEPT !.beat_time =
                                          fromisoformat(replace_Z(beat_time_str))]
                                      : b \in before}]_vars

\* an update that supplied sn alone has returned, for a record whose
\* ip_address and sn now come from different requests
C11_Witness ==
    /\ resp.op = "update"
    /\ resp.code = HTTP_OK
    /\ resp.body = <<"sn">>
    /\ \E r \in select_heart_beat(heart_beat, resp.request.mac) :
        r.sn = "sn2" /\ r.ip_address = "ip1" /\ r.create_time < clock

\* C12: a heartbeat submission or an update whose beat_time is no timestamp
\* is rejected with the client-facing InvalidRequest kind, not the
\* server-side failure kind, and no record is created or modified.
C12_MalformedTimeIsInvalidRequest ==
    [][\A mac \in Macs, ip \in IpAddresses, sn \in SerialNumbers :
        LET garbage == [form |-> "garbage", t |-> 0]
        IN  /\ upsert_heartbeat(mac, ip, sn, garbage, TRUE) =>
                resp'.code = HTTP_BAD_REQUEST /\ heart_beat' = heart_beat
            /\ (put_heartbeat(mac, ip, sn, garbage, TRUE)
                /\ select_heart_beat(heart_beat, mac) # {}) =>
                resp'.code = HTTP_BAD_REQUEST /\ heart_beat' = heart_beat]_vars

\* the tick of task t ends in this step: by its COMMIT, an error or a
\* cancellation
TickEnds(t) == InTickOf(tasks, t) /\ ~InTickOf(tasks', t)

\* one of the two transition counts of the tick is nonzero
Counted(t) == tasks[t].offline_count > 0 \/ tasks[t].online_count > 0

\* C14 as claimed: a tick has emitted the summary observation if and only
\* if one of its two transition counts is nonzero.
C14_SummaryIffCounted ==
    [][\A t \in TaskIds : TickEnds(t) => (tasks[t].summary <=> Counted(t))]_vars

\* C14 as amended: a tick that ran both selections and every update has
\* emitted the summary if and only if one of its counts is nonzero; a tick
\* that has not come that far has emitted none.
C14_SummaryIffCountedAtEnd ==
    \A t \in TaskIds :
        /\ tasks[t].pc = "commit" => (tasks[t].summary <=> Counted(t))
        /\ tasks[t].pc # "commit" => ~tasks[t].summary

\* a tick that set a device offline has emitted its summary and awaits
\* its COMMIT
C14_Witness ==
    \E t \in TaskIds :
        /\ tasks[t].pc = "commit"
        /\ tasks[t].summary
        /\ tasks[t].offline_count = 1
        /\ tasks[t].online_count = 0

\* C15: after an active tick that completes without error and with no
\* foreground write interleaved, every registered device whose beat_time is
\* before the threshold is offline, every registered device whose beat_time
\* is at or after the threshold and that was offline is online, and every
\* other device has the status it had.
C15_SweepPostcondition ==
    [][\A t \in TaskIds : CleanSweep(t) =>
        \A m \in Macs :
            LET registered == device_map[m] # NoDevice
                timed_out == \E b \in BeatTimes(m) : b < tasks[t].threshold
                recent == \E b \in BeatTimes(m) : b >= tasks[t].threshold
            IN  device_map'[m] =
                    IF registered /\ timed_out THEN "offline"
                    ELSE IF recent /\ device_map[m] = "offline" THEN "online"
                    ELSE device_map[m]]_vars

\* a sweep is about to commit "offline" for one device and "online" for
\* the other
C15_Witness ==
    \E t \in TaskIds, m, n \in Macs :
        /\ tasks[t].pc = "commit"
        /\ t \notin interleaved
        /\ tasks[t].writes[m] = "offline"
        /\ device_map[m] \in {"online", "maintenance"}
        /\ tasks[t].writes[n] = "online"
        /\ device_map[n] = "offline"

\* C16: the status writes of one tick become visible to other connections
\* all together or not at all: the committed statuses change only by the
\* COMMIT of a tick, which applies every write of that tick at once, and a
\* tick that fails or is cancelled before its COMMIT leaves every status
\* as it was.
C16_TickIsAtomic ==
    [][/\ device_map' \in
            {device_map} \cup {apply_writes(device_map, tasks[t].writes) :
                                 t \in {u \in TaskIds : tasks[u].pc = "commit"}}
       /\ \A t \in TaskIds :
            (TickEnds(t) /\ tasks[t].pc # "commit") => device_map' = device_map
       /\ monitor_error => device_map' = device_map]_vars

\* a heartbeat handler read the committed status of a device while a tick
\* had already written a new status for it and still had a device to update
C16_Witness ==
    \E t \in TaskIds, m \in Macs :
        /\ t \in interleaved
        /\ tasks[t].writes[m] \notin {NoWrite, device_map[m]}
        /\ tasks[t].todo # {}
        /\ resp.op = "upsert"
        /\ resp.request.mac = m
        /\ resp.body = device_map[m]

\* the awaits at the top of the loop: a new iteration has begun
LoopTop == {"sleep10", "connect"}

\* C17: an error other than a cancellation, at any step of a tick, never
\* ends the task: the task goes to the 60-second back-off and from there
\* straight to the next iteration, or to the 30-second delay and from there
\* to the next iteration; it ends only when it was cancelled; and a task in
\* either wait later begins another iteration or is cancelled.
C17_ErrorsNeverEndTheTask ==
    /\ [][\A t \in TaskIds :
            /\ (Live(t) /\ ~tasks[t].cancel) => Live(t)'
            /\ (InTickOf(tasks, t) /\ ~tasks[t].cancel) =>
                  tasks'[t].pc \in StoreAwaits \cup {"sleep30", "sleep60"}
            /\ (tasks[t].pc = "sleep60" /\ ~tasks[t].cancel) =>
                  tasks'[t].pc \in {"sleep60"} \cup LoopTop
            /\ (tasks[t].pc = "sleep30" /\ ~tasks[t].cancel) =>
                  tasks'[t].pc \in {"sleep30"} \cup LoopTop]_vars
    /\ \A t \in TaskIds :
          (tasks[t].pc \in {"sleep30", "sleep60"})
              ~> (tasks[t].pc \in LoopTop \cup {"done"})

\* a tick failed with a connection error and its task is in the back-off
C17_Witness ==
    \E t \in TaskIds :
        /\ tasks[t].pc = "sleep60"
        /\ ~tasks[t].cancel
        /\ tasks[t].conn

\* C18: a cancellation delivered to a reconciler task at any suspension
\* point makes it finish: the cancelled task takes no other step (no new
\* tick, no error path with its delays), it does finish, and the restart or
\* the shutdown that awaits it resumes.
C18_CancellationEndsTheTask ==
    /\ [][\A t \in TaskIds :
            (Live(t) /\ tasks[t].cancel) =>
                \/ tasks'[t] = tasks[t]
                \/ tasks'[t] = Parked("done")]_vars
    /\ \A t \in TaskIds : (Live(t) /\ tasks[t].cancel) ~> done(t)
    /\ \A r \in RestartCalls : (restarts[r] # None) ~> (restarts[r] = None)
    /\ (phase = "closing") ~> (phase = "stopped")

\* a restart awaits the task it cancelled in the 60-second back-off
C18_Witness ==
    \E r \in RestartCalls :
        /\ restarts[r] # None
        /\ tasks[restarts[r]].cancel
        /\ tasks[restarts[r]].pc = "sleep60"

\* C20: whenever a reconciler task waits in a delay (10, 30 or 60 seconds)
\* or has finished, it holds no open store connection.
C20_NoConnectionWhileWaiting ==
    \A t \in TaskIds :
        tasks[t].pc \in {"sleep10", "sleep30", "sleep60", "done"}
            => ~tasks[t].conn

\* C13: if a storage step of an upsert fails (the existence check, the
\* insert or update, the device_map lookup), the upsert answers a
\* server-side failure and has written nothing: no record was inserted and
\* no beat_time changed; the table changes only when an upsert commits.
C13_FailedUpsertWritesNothing ==
    [][/\ \A c \in UpsertCalls :
            (/\ upserts[c].pc \in {"select", "write", "lookup"}
             /\ upserts'[c].pc = "returned") =>
                /\ upserts'[c].code = HTTP_SERVER_ERROR
                /\ resp'.code = HTTP_SERVER_ERROR
                /\ heart_beat' = heart_beat
       /\ heart_beat' # heart_beat =>
            \E c \in UpsertCalls : /\ upserts[c].pc = "commit"
                                   /\ upserts'[c].code = HTTP_OK]_vars

\* an upsert failed after its INSERT had run, and the mac has no record
C13_Witness ==
    \E c \in UpsertCalls :
        /\ upserts[c].pc = "returned"
        /\ upserts[c].code = HTTP_SERVER_ERROR
        /\ upserts[c].detail = "storage"
        /\ upserts[c].path = "create"
        /\ upserts[c].create_time >= StartTime
        /\ select_heart_beat(heart_beat, upserts[c].mac) = {}

\* C19: two overlapping upserts for a mac without a record, both of which
\* ran their existence check before either inserted, both complete without
\* error, and exactly one record for the mac exists afterwards.
C19_ConcurrentUpsertsBothSucceed ==
    \A c, d \in UpsertCalls :
        (/\ c # d
         /\ upserts[c].pc = "returned" /\ upserts[d].pc = "returned"
         /\ upserts[c].mac = upserts[d].mac
         /\ upserts[c].path = "create" /\ upserts[d].path = "create"
         /\ {upserts[c].detail, upserts[d].detail} \cap {"parse", "storage"} = {})
            => /\ upserts[c].code = HTTP_OK
               /\ upserts[d].code = HTTP_OK
               /\ Cardinality(select_heart_beat(heart_beat, upserts[c].mac)) = 1

=============================================================================
